---- MODULE Spec2Model ----
(***************************************************************************)
(* A model of torch/config_utils.py (ConfigMixin, its patch scope, the     *)
(* unittest-aware ContextDecorator, save_config / load_config) and of      *)
(* torch/optim/lars.py (LARS.__init__, LARS.step, _single_tensor_lars).    *)
(*                                                                         *)
(* Three specifications share the module:                                  *)
(*   SpecLars   the optimizer: construction, then a bounded run of steps;  *)
(*   SpecPatch  one config namespace, update, and one patch scope;         *)
(*   SpecSave   two namespaces of one shape, update, save and load.        *)
(***************************************************************************)
EXTENDS Integers, Sequences, FiniteSets, TLC

VARIABLES
    \* ---- torch/optim/lars.py ----
    pcL,        \* "new" | "ready" | "ctor_failed"
    ctorArgs,   \* the hyperparameters the constructor was called with
    params,     \* the parameter tensors of the (single) param group
    bufs,       \* self.state[p]["momentum_buffer"] per parameter (None: absent)
    stepNo,     \* calls of step() so far
    lastStep,   \* what the last call of step() read and computed
    \* ---- torch/config_utils.py ----
    heap,       \* object -> (attribute name -> value): every __dict__
    scope,      \* the ConfigPatch object: its closure cells changes and prior
    active,     \* the scope has been entered and not yet exited
    entryHeap,  \* the heap just before the last successful __enter__
    preHeap,    \* the heap just before the last config operation
    lastOp,     \* the last config operation and how it ended
    ignore,     \* self._save_config_ignore
    blob,       \* what the last save_config returned
    savedFrom   \* the __dict__ save_config was called on, at that time

larsVars == <<pcL, ctorArgs, params, bufs, stepNo, lastStep>>
confVars == <<heap, scope, active, entryHeap, preHeap, lastOp, ignore, blob, savedFrom>>
vars == <<pcL, ctorArgs, params, bufs, stepNo, lastStep,
          heap, scope, active, entryHeap, preHeap, lastOp, ignore, blob, savedFrom>>

\* Python's None where a tensor is expected: no rational has denominator 0.
None == <<0, 0>>

(***************************************************************************)
(* Exact rational arithmetic: <<numerator, denominator>>, denominator > 0, *)
(* in lowest terms.  It stands for the float arithmetic of the tensors.    *)
(***************************************************************************)
Abs(x) == IF x < 0 THEN -x ELSE x

RECURSIVE Gcd(_, _)
Gcd(a, b) == IF b = 0 THEN a ELSE Gcd(b, a % b)

RNorm(n, d) ==
    LET g == Gcd(Abs(n), Abs(d))
        s == IF d < 0 THEN -1 ELSE 1
    IN  <<(s * n) \div g, (s * d) \div g>>

R(n, d) == RNorm(n, d)
Zero == <<0, 1>>
One == <<1, 1>>
RAdd(a, b) == RNorm(a[1] * b[2] + b[1] * a[2], a[2] * b[2])
RNeg(a) == <<-a[1], a[2]>>
RSub(a, b) == RAdd(a, RNeg(b))
RMul(a, b) == RNorm(a[1] * b[1], a[2] * b[2])
RDiv(a, b) == RNorm(a[1] * b[2], a[2] * b[1])
RLt(a, b) == a[1] * b[2] < b[1] * a[2]
RLe(a, b) == a[1] * b[2] <= b[1] * a[2]
RAbs(a) == <<Abs(a[1]), a[2]>>

(***************************************************************************)
(* torch/optim/lars.py.  A tensor is modelled with one element, so that    *)
(* torch.norm (the 2-norm) is the absolute value and stays rational.       *)
(***************************************************************************)
NumParams == 2      \* parameters in the param group
MaxSteps == 2       \* calls of step() in a run

ParamValues == {R(-1, 1), Zero, One}
GradValues == {Zero, One}
LrValues == {R(-1, 1), R(1, 2)}
MomentumValues == {R(-1, 1), Zero, R(1, 2)}
DampeningValues == {Zero, R(1, 2)}
WeightDecayValues == {R(-1, 1), Zero, One}
TrustValues == {R(1, 2)}
EpsValues == {Zero, R(1, 4)}

HyperParams ==
    [lr : LrValues, momentum : MomentumValues, dampening : DampeningValues,
     weight_decay : WeightDecayValues, nesterov : BOOLEAN,
     trust_coefficient : TrustValues, eps : EpsValues, maximize : BOOLEAN]

NoArgs ==
    [lr |-> Zero, momentum |-> Zero, dampening |-> Zero, weight_decay |-> Zero,
     nesterov |-> FALSE, trust_coefficient |-> Zero, eps |-> Zero,
     maximize |-> FALSE]

\* Validate with the nesterov check reading `momentum < 0`.
ValidateNesterovLt(hp) ==
    IF RLt(hp.lr, Zero) THEN "ValueError: Invalid learning rate"
    ELSE IF RLt(hp.weight_decay, Zero) THEN "ValueError: Invalid weight decay value"
    ELSE IF RLt(hp.momentum, Zero) THEN "ValueError: Invalid momentum value"
    ELSE IF hp.nesterov /\ (RLt(hp.momentum, Zero) \/ hp.dampening # Zero)
         THEN "ValueError: Nesterov momentum requires a momentum and zero dampening"
    ELSE "ok"

\* LARS.__init__, lines 26-33: the four checks, in order.  lr is always given
\* here, so `lr is not required` is true.
Validate(hp) ==
    IF RLt(hp.lr, Zero) THEN "ValueError: Invalid learning rate"
    ELSE IF RLt(hp.weight_decay, Zero) THEN "ValueError: Invalid weight decay value"
    ELSE IF RLt(hp.momentum, Zero) THEN "ValueError: Invalid momentum value"
    ELSE IF hp.nesterov /\ (RLe(hp.momentum, Zero) \/ hp.dampening # Zero)
         THEN "ValueError: Nesterov momentum requires a momentum and zero dampening"
    ELSE "ok"

\* torch.norm of a one-element tensor.
Norm(t) == RAbs(t)

\* LarsScale testing the parameter's norm alone, not the product of norms.
LarsScalePNormOnly(param, grad, hp) ==
    LET d_p == IF ~hp.maximize THEN grad ELSE RNeg(grad)
        p_norm == Abs(param[1])
        g_norm == Abs(d_p[1])
    IN  IF hp.weight_decay # <<0, 1>> /\ p_norm > 0
        THEN LET lars_lr == RDiv(RMul(hp.trust_coefficient, RAbs(param)),
                                 RAdd(RAdd(RAbs(d_p), RMul(RAbs(param), hp.weight_decay)),
                                      hp.eps))
             IN  [d_p |-> RMul(RAdd(d_p, RMul(hp.weight_decay, param)), lars_lr),
                  divided |-> TRUE]
        ELSE [d_p |-> d_p, divided |-> FALSE]

\* _single_tensor_lars, lines 148-159: the effective gradient and the LARS
\* scaling.  divided: whether line 156 (the division) was evaluated.
LarsScale(param, grad, hp) ==
    LET d_p == IF ~hp.maximize THEN grad ELSE RNeg(grad)
        p_norm == Norm(param)
        g_norm == Norm(d_p)
    IN  IF hp.weight_decay # Zero /\ RLt(Zero, RMul(p_norm, g_norm))
        THEN LET lars_lr == RDiv(RMul(hp.trust_coefficient, p_norm),
                                 RAdd(RAdd(g_norm, RMul(p_norm, hp.weight_decay)),
                                      hp.eps))
             IN  [d_p |-> RMul(RAdd(d_p, RMul(hp.weight_decay, param)), lars_lr),
                  divided |-> TRUE]
        ELSE [d_p |-> d_p, divided |-> FALSE]

\* MomentumBuffer without the dampening factor.
MomentumBufferNoDampening(buf, d_p, hp) ==
    IF hp.momentum # Zero
    THEN IF buf = None THEN d_p ELSE RAdd(RMul(buf, hp.momentum), d_p)
    ELSE buf

\* lines 161-168: the entry of momentum_buffer_list after the iteration.
MomentumBuffer(buf, d_p, hp) ==
    IF hp.momentum # Zero
    THEN IF buf = None
         THEN d_p
         ELSE RAdd(RMul(buf, hp.momentum), RMul(d_p, RSub(One, hp.dampening)))
    ELSE buf

\* line 170 (and d_p left as it is when momentum = 0).
Direction(d_p, buf, hp) ==
    IF hp.momentum # Zero
    THEN IF hp.nesterov THEN RAdd(d_p, RMul(buf, hp.momentum)) ELSE buf
    ELSE d_p

\* One iteration of the loop of lines 147-170.
Iteration(param, grad, buf, hp) ==
    LET sc == LarsScale(param, grad, hp)
        nb == MomentumBuffer(buf, sc.d_p, hp)
    IN  [g |-> sc.d_p, divided |-> sc.divided, buf |-> nb,
         d_p |-> Direction(sc.d_p, nb, hp)]

NoIteration == [g |-> None, divided |-> FALSE, buf |-> None, d_p |-> None]

\* Line 172, after the loop: `param` and `d_p` are the loop's last bindings, so
\* only the last tensor of the list is updated; with an empty list neither name
\* is bound and the statement raises UnboundLocalError.
ApplyUpdate(ps, its, hp) ==
    LET n == Len(ps)
    IN  [ps EXCEPT ![n] = RAdd(ps[n], RMul(RNeg(hp.lr), its[n].d_p))]

\* _single_tensor_lars on the lists LARS.step built.
SingleTensorLars(ps, gs, bl, hp) ==
    LET its == [i \in 1..Len(ps) |-> Iteration(ps[i], gs[i], bl[i], hp)]
    IN  IF Len(ps) = 0
        THEN [raised |-> "UnboundLocalError", params |-> ps, bufs |-> bl, its |-> its]
        ELSE [raised |-> "ok", params |-> ApplyUpdate(ps, its, hp),
              bufs |-> [i \in 1..Len(ps) |-> its[i].buf], its |-> its]

\* LARS.step, lines 68-75: the indices of the parameters that have a gradient.
WithGrad(grads) == SelectSeq([i \in 1..NumParams |-> i], LAMBDA i : grads[i] # None)

\* The position of parameter i in params_with_grad.
PosOf(idx, i) == CHOOSE k \in 1..Len(idx) : idx[k] = i

NoStep ==
    [result |-> "none", hp |-> NoArgs,
     before |-> [i \in 1..NumParams |-> Zero],
     grads |-> [i \in 1..NumParams |-> None],
     bufBefore |-> [i \in 1..NumParams |-> None],
     seenBefore |-> [i \in 1..NumParams |-> FALSE],
     seen |-> [i \in 1..NumParams |-> FALSE],
     iter |-> [i \in 1..NumParams |-> NoIteration]]

\* LARS(params, **hp): validation, then the defaults are kept (lines 35-47).
Construct(hp) ==
    /\ pcL = "new"
    /\ ctorArgs' = hp
    /\ pcL' = IF Validate(hp) = "ok" THEN "ready" ELSE "ctor_failed"
    /\ UNCHANGED <<params, bufs, stepNo, lastStep>>

\* optimizer.step() with the gradients `grads` on the parameters (None: p.grad
\* is None).  Lines 63-93: collect, call lars(), store the buffers back.
Step(grads) ==
    /\ pcL = "ready"
    /\ stepNo < MaxSteps
    /\ LET hp == ctorArgs
           idx == WithGrad(grads)
           ps == [k \in 1..Len(idx) |-> params[idx[k]]]
           gs == [k \in 1..Len(idx) |-> grads[idx[k]]]
           bl == [k \in 1..Len(idx) |-> bufs[idx[k]]]
           out == SingleTensorLars(ps, gs, bl, hp)
           has(i) == grads[i] # None
       IN  /\ params' = [i \in 1..NumParams |->
                            IF has(i) THEN out.params[PosOf(idx, i)] ELSE params[i]]
           /\ bufs' = [i \in 1..NumParams |->
                            IF has(i) /\ out.raised = "ok"
                            THEN out.bufs[PosOf(idx, i)] ELSE bufs[i]]
           /\ lastStep' =
                [result |-> out.raised, hp |-> hp, before |-> params, grads |-> grads,
                 bufBefore |-> bufs,
                 seenBefore |-> lastStep.seen,
                 seen |-> [i \in 1..NumParams |-> lastStep.seen[i] \/ has(i)],
                 iter |-> [i \in 1..NumParams |->
                            IF has(i) THEN out.its[PosOf(idx, i)] ELSE NoIteration]]
    /\ stepNo' = stepNo + 1
    /\ UNCHANGED <<pcL, ctorArgs>>

NextLars ==
    \/ \E hp \in HyperParams : Construct(hp) /\ UNCHANGED confVars
    \/ \E grads \in [1..NumParams -> GradValues \cup {None}] :
            Step(grads) /\ UNCHANGED confVars

(***************************************************************************)
(* torch/config_utils.py.  A value is a primitive ("0", "1") or a          *)
(* reference to an object (the object's name); an object is its __dict__.  *)
(* A key is the string the caller passes, as its sequence of characters,   *)
(* and an attribute name is the sequence of characters of one segment.     *)
(***************************************************************************)
MaxChanges == 2     \* entries of a change set

Root == "root"
EmptyDict == [n \in {} |-> "0"]

\* key.split('.')
RECURSIVE SplitAt(_, _)
SplitAt(key, cur) ==
    IF key = <<>> THEN <<cur>>
    ELSE IF Head(key) = "." THEN <<cur>> \o SplitAt(Tail(key), <<>>)
    ELSE SplitAt(Tail(key), Append(cur, Head(key)))

Split(key) == SplitAt(key, <<>>)

\* getattr(current, token): AttributeError on a primitive or a missing name.
GetAttr(h, current, token) ==
    IF current \in DOMAIN h /\ token \in DOMAIN h[current]
    THEN [ok |-> TRUE, val |-> h[current][token]]
    ELSE [ok |-> FALSE, val |-> "AttributeError"]

\* for token in pieces: current = getattr(current, token)
RECURSIVE Walk(_, _, _)
Walk(h, current, pieces) ==
    IF pieces = <<>> THEN [ok |-> TRUE, val |-> current]
    ELSE LET r == GetAttr(h, current, Head(pieces))
         IN  IF r.ok THEN Walk(h, r.val, Tail(pieces)) ELSE r

\* ConfigMixin._get_single
GetSingle(h, self, key) == Walk(h, self, Split(key))

\* setattr(current, name, val) on an object with a __dict__: the name is set
\* whether or not it was there before.
SetAttr(d, name, val) ==
    [n \in DOMAIN d \cup {name} |-> IF n = name THEN val ELSE d[n]]

\* ConfigMixin._update_single
UpdateSingle(h, self, key, val) ==
    LET pieces == Split(key)
        r == Walk(h, self, SubSeq(pieces, 1, Len(pieces) - 1))
    IN  IF r.ok /\ r.val \in DOMAIN h
        THEN [ok |-> TRUE,
              heap |-> [h EXCEPT ![r.val] = SetAttr(h[r.val], pieces[Len(pieces)], val)]]
        ELSE [ok |-> FALSE, heap |-> h]

\* ConfigMixin.update: the entries in the dict's order; the first failure
\* propagates and leaves the writes made before it.
RECURSIVE Update(_, _, _)
Update(h, self, content) ==
    IF content = <<>> THEN [ok |-> TRUE, heap |-> h]
    ELSE LET r == UpdateSingle(h, self, content[1][1], content[1][2])
         IN  IF r.ok THEN Update(r.heap, self, Tail(content)) ELSE r

\* prior[key] = val on a dict kept as its sequence of items.
DictSet(d, key, val) ==
    IF \E i \in 1..Len(d) : d[i][1] = key
    THEN [i \in 1..Len(d) |-> IF d[i][1] = key THEN <<key, val>> ELSE d[i]]
    ELSE Append(d, <<key, val>>)

\* ConfigPatch.__enter__, lines 111-113: the loop that records the prior values.
RECURSIVE RecordPrior(_, _, _, _)
RecordPrior(h, self, changes, prior) ==
    IF changes = <<>> THEN [ok |-> TRUE, prior |-> prior]
    ELSE LET r == GetSingle(h, self, changes[1][1])
         IN  IF r.ok
             THEN RecordPrior(h, self, Tail(changes), DictSet(prior, changes[1][1], r.val))
             ELSE [ok |-> FALSE, prior |-> prior]

\* ConfigPatch.__enter__ as a whole.
EnterScope(h, self, changes, prior) ==
    IF prior # <<>>
    THEN [result |-> "AssertionError", stage |-> "assert", heap |-> h, prior |-> prior]
    ELSE LET rec == RecordPrior(h, self, changes, prior)
             upd == Update(h, self, changes)
         IN  IF ~rec.ok
             THEN [result |-> "AttributeError", stage |-> "lookup", heap |-> h,
                   prior |-> rec.prior]
             ELSE IF ~upd.ok
             THEN [result |-> "AttributeError", stage |-> "update", heap |-> upd.heap,
                   prior |-> rec.prior]
             ELSE [result |-> "ok", stage |-> "", heap |-> upd.heap, prior |-> rec.prior]

\* ConfigPatch.__exit__: prior.clear() is reached only when update returned.
ExitScope(h, self, prior) ==
    LET upd == Update(h, self, prior)
    IN  IF upd.ok
        THEN [result |-> "ok", heap |-> upd.heap, prior |-> <<>>]
        ELSE [result |-> "AttributeError", heap |-> upd.heap, prior |-> prior]

\* pickle.dumps of an object whose __dict__ is d: the items, one after the
\* other.  pickle.loads builds the __dict__ back from them.
RECURSIVE Dumps(_)
Dumps(d) ==
    IF DOMAIN d = {} THEN <<>>
    ELSE LET n == CHOOSE x \in DOMAIN d : TRUE
         IN  <<<<n, d[n]>>>> \o Dumps([x \in DOMAIN d \ {n} |-> d[x]])

Loads(bytes) ==
    [n \in {bytes[i][1] : i \in 1..Len(bytes)} |->
        LET i == CHOOSE j \in 1..Len(bytes) : bytes[j][1] = n IN bytes[i][2]]

\* SaveConfig with the attributes deleted from self, not from a copy.
SaveConfigOnSelf(h, self, ign) ==
    IF \E key \in ign : key \notin DOMAIN h[self]
    THEN [result |-> "AttributeError", bytes |-> <<>>, heap |-> h]
    ELSE LET config == [n \in DOMAIN h[self] \ ign |-> h[self][n]]
         IN  [result |-> "ok", bytes |-> Dumps(config),
              heap |-> [h EXCEPT ![self] = config]]

\* ConfigMixin.save_config: copy.copy(self), delattr on the copy for every key
\* of the ignore-list (AttributeError when the copy has no such attribute),
\* then pickle.dumps.  The heap is returned as it was: only the copy changed.
SaveConfig(h, self, ign) ==
    IF \E key \in ign : key \notin DOMAIN h[self]
    THEN [result |-> "AttributeError", bytes |-> <<>>, heap |-> h]
    ELSE LET config == [n \in DOMAIN h[self] \ ign |-> h[self][n]]
         IN  [result |-> "ok", bytes |-> Dumps(config), heap |-> h]

\* ConfigMixin.load_config: self.__dict__.update(state.__dict__)
LoadConfig(h, self, content) ==
    LET state == Loads(content)
    IN  [h EXCEPT ![self] =
            [n \in DOMAIN h[self] \cup DOMAIN state |->
                IF n \in DOMAIN state THEN state[n] ELSE h[self][n]]]

\* The names bound at module level in torch/config_utils.py: its imports
\* (lines 1-6) and its definitions.
ModuleGlobals ==
    {"copy", "dataclasses", "functools", "pickle", "torch", "contextlib",
     "ContextDecorator", "ConfigMixin", "CONFIG_TYPES", "make_config_dataclass"}

\* ContextDecorator.__call__(func), lines 16-38.  `isinstance(func, type) and
\* issubclass(func, unittest.TestCase)` looks the name unittest up only for a
\* class; the lookup raises NameError when the module does not bind it.
DecoratorCall(kind) ==
    IF kind \in {"TestCase", "class"}
    THEN IF "unittest" \notin ModuleGlobals THEN "NameError"
         ELSE IF kind = "TestCase" THEN "_TestCase" ELSE "wrapped"
    ELSE "wrapped"

\* ConfigMixin.patch, lines 92-104: the three calling conventions.  An argument
\* is [tag |-> "none"], [tag |-> "str", v |-> key], [tag |-> "val", v |-> value]
\* or [tag |-> "dict", v |-> items]; kwargs is a dict.
PatchChanges(arg1, arg2, kwargs) ==
    IF arg1.tag # "none"
    THEN IF arg2.tag # "none" /\ arg1.tag = "dict"
         THEN [result |-> "TypeError", changes |-> <<>>]       \* {arg1: arg2}: unhashable
         ELSE IF kwargs # <<>>
         THEN [result |-> "AssertionError", changes |-> <<>>]  \* assert not kwargs
         ELSE IF arg2.tag # "none"
         THEN [result |-> "ok", changes |-> <<<<arg1.v, arg2.v>>>>]
         ELSE IF arg1.tag = "dict"
         THEN [result |-> "ok", changes |-> arg1.v]
         ELSE [result |-> "AssertionError", changes |-> <<>>]  \* changes is a str
    ELSE IF arg2.tag # "none"
         THEN [result |-> "AssertionError", changes |-> <<>>]  \* assert arg2 is None
         ELSE [result |-> "ok", changes |-> kwargs]

NoArg == [tag |-> "none", v |-> <<>>]
\* calls: the last three calls of __enter__ / __exit__ on the scope object and
\* how each ended, oldest first.
NoScope == [exists |-> FALSE, changes |-> <<>>, prior |-> <<>>, calls |-> <<>>]
Called(calls, name, result) ==
    IF Len(calls) < 3 THEN Append(calls, <<name, result>>)
    ELSE Append(Tail(calls), <<name, result>>)
NoOp ==
    [op |-> "none", self |-> "", result |-> "", stage |-> "", arg |-> <<>>,
     wasActive |-> FALSE]
NoBlob == [has |-> FALSE, bytes |-> <<>>]

KeyA == <<"a">>
KeyS == <<"s">>
KeySB == <<"s", ".", "b">>
KeyZ == <<"z">>
KeyZB == <<"z", ".", "b">>
KeyI == <<"i">>

Prims == {"0", "1"}
PatchKeys == {KeyA, KeyS, KeySB, KeyZ}
PatchVals == {"1", "T"}
UpdateKeys == {KeyA, KeySB, KeyZ, KeyZB}

\* The dicts of at most MaxChanges items over the keys ks and the values vs.
Dicts(ks, vs) ==
    {c \in UNION {[1..n -> ks \X vs] : n \in 0..MaxChanges} :
        \A i, j \in 1..Len(c) : i # j => c[i][1] # c[j][1]}

ChangeSets == Dicts(PatchKeys, PatchVals)
Kwargs == {c \in ChangeSets : \A i \in 1..Len(c) : \A j \in 1..Len(c[i][1]) : c[i][1][j] # "."}
StrArgs == {[tag |-> "str", v |-> k] : k \in PatchKeys}
DictArgs == {[tag |-> "dict", v |-> c] : c \in ChangeSets}
ValArgs == {[tag |-> "val", v |-> x] : x \in PatchVals}

\* The calls of patch() the model makes: each convention, and the misuses the
\* assertions of lines 99-104 reject.
PatchCalls ==
    ((StrArgs \cup DictArgs) \X (ValArgs \cup {NoArg}) \X {<<>>})
        \cup ({NoArg} \X (ValArgs \cup {NoArg}) \X Kwargs)
        \cup (StrArgs \X ValArgs \X {<<<<KeyA, "1">>>>})

\* What lastOp keeps of an operation: its name, the namespace it was called on,
\* how it ended, where it failed, its argument, and whether the scope was
\* active when it began.
Op(op, self, result, stage, arg) ==
    [op |-> op, self |-> self, result |-> result, stage |-> stage, arg |-> arg,
     wasActive |-> active]

InitLarsIdle ==
    /\ pcL = "new"
    /\ ctorArgs = NoArgs
    /\ params = [i \in 1..NumParams |-> Zero]
    /\ bufs = [i \in 1..NumParams |-> None]
    /\ stepNo = 0
    /\ lastStep = NoStep

InitConfIdle ==
    /\ heap = [o \in {Root} |-> EmptyDict]
    /\ scope = NoScope
    /\ active = FALSE
    /\ entryHeap = heap
    /\ preHeap = heap
    /\ lastOp = NoOp
    /\ ignore = {}
    /\ blob = NoBlob
    /\ savedFrom = EmptyDict

\* The parameter tensors exist before the optimizer is constructed.
InitLars ==
    /\ pcL = "new"
    /\ ctorArgs = NoArgs
    /\ params \in [1..NumParams -> ParamValues]
    /\ bufs = [i \in 1..NumParams |-> None]
    /\ stepNo = 0
    /\ lastStep = NoStep
    /\ InitConfIdle

\* The attribute names make_config_dataclass declares (lines 131-134), per
\* object.  SpecPatch: the options a and s, s a nested namespace with the option
\* b; T is another namespace object, which the caller holds.  SpecSave: the
\* namespaces cfg and fresh, of one shape, with the primitive options a and i.
Declared(o) ==
    IF o = Root THEN {<<"a">>, <<"s">>}
    ELSE IF o \in {"S", "T"} THEN {<<"b">>}
    ELSE {<<"a">>, <<"i">>}

InitPatch ==
    /\ heap = [o \in {Root, "S", "T"} |->
                 IF o = Root THEN (<<"a">> :> "0") @@ (<<"s">> :> "S")
                 ELSE IF o = "S" THEN (<<"b">> :> "0")
                 ELSE (<<"b">> :> "1")]
    /\ scope = NoScope
    /\ active = FALSE
    /\ entryHeap = heap
    /\ preHeap = heap
    /\ lastOp = NoOp
    /\ ignore = {}
    /\ blob = NoBlob
    /\ savedFrom = EmptyDict
    /\ InitLarsIdle

\* config.update(content) called by the program, before it makes a scope.
DoUpdate(self, content) ==
    /\ ~scope.exists
    /\ LET r == Update(heap, self, content)
       IN  /\ heap' = r.heap
           /\ entryHeap' = r.heap
           /\ lastOp' = Op("update", self, IF r.ok THEN "ok" ELSE "AttributeError",
                           "", content[1][1])
    /\ preHeap' = heap
    /\ UNCHANGED <<scope, active, ignore, blob, savedFrom>>

\* scope = config.patch(arg1, arg2, **kwargs): a new ConfigPatch with an empty
\* prior (lines 105-120), or the assertion / type error of lines 92-104.
DoPatch(arg1, arg2, kwargs) ==
    /\ ~scope.exists
    /\ LET r == PatchChanges(arg1, arg2, kwargs)
       IN  /\ scope' = IF r.result = "ok"
                       THEN [exists |-> TRUE, changes |-> r.changes, prior |-> <<>>,
                             calls |-> <<>>]
                       ELSE scope
           /\ lastOp' = Op("patch", Root, r.result, "", <<>>)
    /\ preHeap' = heap
    /\ UNCHANGED <<heap, active, entryHeap, ignore, blob, savedFrom>>

\* scope.__enter__(): by a with statement, by a decorated call, or directly.
DoEnter ==
    /\ scope.exists
    /\ LET r == EnterScope(heap, Root, scope.changes, scope.prior)
       IN  /\ heap' = r.heap
           /\ scope' = [scope EXCEPT !.prior = r.prior,
                                      !.calls = Called(@, "enter", r.result)]
           /\ active' = (active \/ r.result = "ok")
           /\ entryHeap' = IF r.result = "ok" THEN heap ELSE entryHeap
           /\ lastOp' = Op("enter", Root, r.result, r.stage, <<>>)
    /\ preHeap' = heap
    /\ UNCHANGED <<ignore, blob, savedFrom>>

\* scope.__exit__(exc_type, exc_val, exc_tb) at the end of the guarded block,
\* which finished normally (exc = "None") or raised.  The arguments are not
\* read, and None is returned: an exception of the block propagates.
DoExit(exc) ==
    /\ scope.exists
    /\ active
    /\ LET r == ExitScope(heap, Root, scope.prior)
       IN  /\ heap' = r.heap
           /\ scope' = [scope EXCEPT !.prior = r.prior,
                                      !.calls = Called(@, "exit", r.result)]
           /\ lastOp' = Op("exit", Root, r.result, "", <<exc>>)
    /\ active' = FALSE
    /\ preHeap' = heap
    /\ UNCHANGED <<entryHeap, ignore, blob, savedFrom>>

\* scope(func): the scope used as a decorator on a function, on a
\* unittest.TestCase subclass, or on another class.
DoDecorate(kind) ==
    /\ scope.exists
    /\ ~active
    /\ lastOp' = Op("decorate", Root, DecoratorCall(kind), "", <<kind>>)
    /\ preHeap' = heap
    /\ UNCHANGED <<heap, scope, active, entryHeap, ignore, blob, savedFrom>>

NextPatch ==
    \/ \E k \in UpdateKeys, v \in Prims :
            DoUpdate(Root, <<<<k, v>>>>) /\ UNCHANGED larsVars
    \/ \E c \in PatchCalls : DoPatch(c[1], c[2], c[3]) /\ UNCHANGED larsVars
    \/ DoEnter /\ UNCHANGED larsVars
    \/ \E exc \in {"None", "Exception"} : DoExit(exc) /\ UNCHANGED larsVars
    \/ \E kind \in {"function", "TestCase", "class"} :
            DoDecorate(kind) /\ UNCHANGED larsVars

SpecPatch == InitPatch /\ [][NextPatch]_vars

SaveNamespaces == {"cfg", "fresh"}
SaveKeys == {KeyA, KeyI, KeyZ}

\* Two namespaces made by the same dataclass, with their defaults; the
\* ignore-list names the declared option i, the undeclared name z, both or none.
InitSave ==
    /\ heap = [o \in SaveNamespaces |-> [n \in Declared(o) |-> "0"]]
    /\ ignore \in SUBSET {<<"i">>, <<"z">>}
    /\ scope = NoScope
    /\ active = FALSE
    /\ entryHeap = heap
    /\ preHeap = heap
    /\ lastOp = NoOp
    /\ blob = NoBlob
    /\ savedFrom = EmptyDict
    /\ InitLarsIdle

\* blob = self.save_config()
DoSave(self) ==
    /\ LET r == SaveConfig(heap, self, ignore)
       IN  /\ heap' = r.heap
           /\ entryHeap' = r.heap
           /\ blob' = IF r.result = "ok" THEN [has |-> TRUE, bytes |-> r.bytes] ELSE blob
           /\ savedFrom' = IF r.result = "ok" THEN heap[self] ELSE savedFrom
           /\ lastOp' = Op("save", self, r.result, "", <<>>)
    /\ preHeap' = heap
    /\ UNCHANGED <<scope, active, ignore>>

\* self.load_config(blob)
DoLoad(self) ==
    /\ blob.has
    /\ heap' = LoadConfig(heap, self, blob.bytes)
    /\ entryHeap' = heap'
    /\ preHeap' = heap
    /\ lastOp' = Op("load", self, "ok", "", <<>>)
    /\ UNCHANGED <<scope, active, ignore, blob, savedFrom>>

NextSave ==
    \/ \E self \in SaveNamespaces, k \in SaveKeys, v \in Prims :
            DoUpdate(self, <<<<k, v>>>>) /\ UNCHANGED larsVars
    \/ \E self \in SaveNamespaces : DoSave(self) /\ UNCHANGED larsVars
    \/ \E self \in SaveNamespaces : DoLoad(self) /\ UNCHANGED larsVars

SpecSave == InitSave /\ [][NextSave]_vars


SpecLars == InitLars /\ [][NextLars]_vars

(***************************************************************************)
(* The claims about torch/optim/lars.py, checked under SpecLars.           *)
(***************************************************************************)
ParamIds == 1..NumParams
HadGrad(i) == lastStep.grads[i] # None
EffectiveGrad(i) ==
    IF lastStep.hp.maximize THEN RNeg(lastStep.grads[i]) ELSE lastStep.grads[i]

\* C4: with weight_decay = 0 and momentum = 0 a step leaves EVERY parameter
\* that had a gradient at param_before - lr * grad (grad negated under
\* maximize), whatever the length of the list.
C4_EveryParameterUpdated ==
    (lastStep.result = "ok" /\ lastStep.hp.weight_decay = Zero
        /\ lastStep.hp.momentum = Zero)
    => \A i \in ParamIds :
          HadGrad(i) =>
             params[i] = RSub(lastStep.before[i], RMul(lastStep.hp.lr, EffectiveGrad(i)))

\* The hyperparameters the constructor must reject.
C5_Invalid(hp) ==
    \/ RLt(hp.lr, Zero)
    \/ RLt(hp.weight_decay, Zero)
    \/ RLt(hp.momentum, Zero)
    \/ hp.nesterov /\ (~RLt(Zero, hp.momentum) \/ hp.dampening # Zero)

\* C5: construction fails exactly for the invalid hyperparameters, and a failed
\* construction leaves no optimizer state and lets no step run.
C5_ConstructionValidated ==
    /\ pcL = "ctor_failed" =>
          /\ C5_Invalid(ctorArgs)
          /\ stepNo = 0
          /\ lastStep = NoStep
          /\ \A i \in ParamIds : bufs[i] = None
    /\ pcL = "ready" => ~C5_Invalid(ctorArgs)
    /\ stepNo > 0 => pcL = "ready"

\* nesterov = True with momentum = 0 and everything else valid was rejected.
C5_Witness ==
    /\ pcL = "ctor_failed"
    /\ ctorArgs.nesterov
    /\ ctorArgs.momentum = Zero
    /\ ctorArgs.dampening = Zero
    /\ ~RLt(ctorArgs.lr, Zero)
    /\ ~RLt(ctorArgs.weight_decay, Zero)

\* C8: with weight_decay # 0, a parameter whose norm or whose gradient's norm
\* is zero gets the raw (possibly negated) gradient as its direction and no
\* division is evaluated; otherwise the direction is
\* (g + wd * param) * tc * p_norm / (g_norm + wd * p_norm + eps).
C8_ScalingSkippedOnZeroNorm ==
    \A i \in ParamIds :
        (HadGrad(i) /\ lastStep.hp.weight_decay # Zero) =>
            LET hp == lastStep.hp
                p == lastStep.before[i]
                g == EffectiveGrad(i)
                it == lastStep.iter[i]
            IN  IF p[1] = 0 \/ g[1] = 0
                THEN it.g = g /\ ~it.divided
                ELSE /\ it.divided
                     /\ it.g = RDiv(RMul(RMul(RAdd(g, RMul(hp.weight_decay, p)),
                                             hp.trust_coefficient), RAbs(p)),
                                    RAdd(RAdd(RAbs(g), RMul(hp.weight_decay, RAbs(p))),
                                         hp.eps))

\* A step with weight decay met a zero parameter with a nonzero gradient, and
\* another parameter whose scaling was applied.
C8_Witness ==
    /\ lastStep.result = "ok"
    /\ lastStep.hp.weight_decay # Zero
    /\ \E i \in ParamIds :
          HadGrad(i) /\ lastStep.before[i] = Zero /\ lastStep.grads[i] # Zero
    /\ \E i \in ParamIds : HadGrad(i) /\ lastStep.iter[i].divided

\* The last parameter of params_with_grad in the last step (0: none).
LastWithGrad ==
    IF \E i \in ParamIds : HadGrad(i)
    THEN CHOOSE i \in ParamIds : HadGrad(i) /\ \A j \in ParamIds : HadGrad(j) => j <= i
    ELSE 0

AllResolve(h, changes) ==
    \A i \in 1..Len(changes) : GetSingle(h, Root, changes[i][1]).ok

Succ(h, os) ==
    os \cup {v \in DOMAIN h : \E o \in os : \E n \in DOMAIN h[o] : h[o][n] = v}

\* The objects a dotted path from the namespace reaches, with their values.
Namespace(h) == LET r == Succ(h, Succ(h, {Root})) IN [o \in r |-> h[o]]

\* C1 (restoration): for every change set whose keys all resolve at entry,
\* __exit__ after __enter__ returns, whether the guarded block finished or
\* raised, and leaves every namespace value as it was just before entry.
C1_ExitRestoresNamespace ==
    (lastOp.op = "exit" /\ AllResolve(entryHeap, scope.changes)) =>
        /\ lastOp.result = "ok"
        /\ Namespace(heap) = Namespace(entryHeap)

\* C2: __enter__ on a scope that is active fails with an assertion error, and
\* enter, exit, enter on one scope object succeeds.
C2_ReentryRejected ==
    /\ (lastOp.op = "enter" /\ lastOp.wasActive) => lastOp.result = "AssertionError"
    /\ (Len(scope.calls) = 3 /\ scope.calls[1] = <<"enter", "ok">>
            /\ scope.calls[2] = <<"exit", "ok">> /\ scope.calls[3][1] = "enter")
        => scope.calls[3][2] = "ok"

\* C6: every object of the namespace holds exactly its declared names, and an
\* update of an undeclared name fails.
C6_OnlyDeclaredNames ==
    /\ \A o \in DOMAIN heap : DOMAIN heap[o] = Declared(o)
    /\ (lastOp.op = "update" /\ lastOp.arg \in {KeyZ, KeyZB}) =>
            lastOp.result = "AttributeError"

\* C7: a scope that decorates a test-fixture class yields the fixture class
\* whose setUpClass enters the scope and whose tearDownClass exits it.
C7_FixtureClassWrapped ==
    (lastOp.op = "decorate" /\ lastOp.arg = <<"TestCase">>) =>
        lastOp.result = "_TestCase"

\* C10: an __enter__ that fails on a key that does not resolve leaves the
\* recorded set empty and the namespace as it was, and the assertion rejects
\* an __enter__ only on a scope that is active.
C10_FailedEnterLeavesScopeInactive ==
    /\ (lastOp.op = "enter" /\ lastOp.stage = "lookup") =>
            scope.prior = <<>> /\ heap = preHeap
    /\ (lastOp.op = "enter" /\ lastOp.result = "AssertionError") => lastOp.wasActive

(***************************************************************************)
(* The claim about save_config / load_config, under SpecSave.              *)
(***************************************************************************)
\* C3: load_config of a blob made by save_config gives every field outside the
\* ignore-list the value it had in the saved namespace when it was saved, and
\* leaves the ignore-listed fields of the loading namespace as they were;
\* save_config leaves the namespace it is called on as it was.
C3_SaveLoadRoundTrip ==
    /\ lastOp.op = "load" =>
          LET mine == heap[lastOp.self]
              was == preHeap[lastOp.self]
          IN  /\ \A n \in DOMAIN savedFrom \ ignore :
                    n \in DOMAIN mine /\ mine[n] = savedFrom[n]
              /\ \A n \in ignore :
                    IF n \in DOMAIN was THEN n \in DOMAIN mine /\ mine[n] = was[n]
                    ELSE n \notin DOMAIN mine
              /\ \A o \in DOMAIN heap \ {lastOp.self} : heap[o] = preHeap[o]
    /\ lastOp.op = "save" => heap = preHeap

\* fresh loaded a blob saved from cfg: a saved field and an ignored field both
\* differed between the two namespaces.
C3_Witness ==
    /\ lastOp.op = "load"
    /\ lastOp.self = "fresh"
    /\ ignore = {<<"i">>}
    /\ savedFrom[<<"a">>] # preHeap["fresh"][<<"a">>]
    /\ savedFrom[<<"i">>] # preHeap["fresh"][<<"i">>]
    /\ heap["cfg"] = savedFrom

====
